---- MODULE Spec2Model ----
(***************************************************************************)
(* Model of app.py (analyse-carbone-site): the URL normalizer, the link    *)
(* discoverer, the keyword scorer, the page analyzer, the bounded crawl of *)
(* analyze_website with its aggregation, and the carbon estimator.         *)
(*                                                                         *)
(* Python strings are sequences of one-character strings, so that prefix   *)
(* tests, substring tests, substring counts and lower-casing are computed  *)
(* the way the code computes them.                                         *)
(***************************************************************************)
EXTENDS Integers, Sequences, FiniteSets, TLC

VARIABLES
    \* analyze_website / estimate_site_carbon (specification Spec)
    pc,               \* position in analyze_website
    net,              \* the fetch layer: what the network answers
    hash_seed,        \* the str hash seed of the interpreter process
    seed,             \* the url argument
    max_pages,        \* the max_pages argument
    base_url,         \* local base_url
    candidate_links,  \* local candidate_links
    idx,              \* position of the for loop in candidate_links
    visited,          \* local visited
    pages_data,       \* local pages_data
    html,             \* local html_home, then html: what fetch_page returned
    requests,         \* the GET requests sent so far (urls, in order)
    report,           \* the value analyze_website returned
    carbon,           \* the outcome of estimate_site_carbon on report
    prev,             \* report and requests of the previous run
    \* normalize_base_url (specification SpecNorm)
    nz_pc, nz_url, nz_out,
    \* find_candidate_links (specification SpecLinks)
    lk_pc, lk_html, lk_max, lk_out,
    \* estimate_site_carbon (specification SpecCarbon)
    ce_pc, ce_in, ce_out

crawlVars == <<pc, net, hash_seed, seed, max_pages, base_url, candidate_links, idx,
               visited, pages_data, html, requests, report, carbon, prev>>
normVars == <<nz_pc, nz_url, nz_out>>
linkVars == <<lk_pc, lk_html, lk_max, lk_out>>
carbonVars == <<ce_pc, ce_in, ce_out>>
vars == <<crawlVars, normVars, linkVars, carbonVars>>

\* Python's None
None == [kind |-> "None"]

-----------------------------------------------------------------------------
(* Python str operations *)

UpperAZ == <<"A","B","C","D","E","F","G","H","I","J","K","L","M","N","O","P","Q","R","S","T","U","V","W","X","Y","Z">>
LowerAZ == <<"a","b","c","d","e","f","g","h","i","j","k","l","m","n","o","p","q","r","s","t","u","v","w","x","y","z">>
Digits == <<"0","1","2","3","4","5","6","7","8","9">>

Range(s) == {s[i] : i \in 1..Len(s)}

\* the upper-case characters of the modelled texts, with their lower case
LowerTable ==
    "A" :> "a" @@ "B" :> "b" @@ "C" :> "c" @@ "D" :> "d" @@ "E" :> "e" @@
    "F" :> "f" @@ "G" :> "g" @@ "H" :> "h" @@ "I" :> "i" @@ "J" :> "j" @@
    "K" :> "k" @@ "L" :> "l" @@ "M" :> "m" @@ "N" :> "n" @@ "O" :> "o" @@
    "P" :> "p" @@ "Q" :> "q" @@ "R" :> "r" @@ "S" :> "s" @@ "T" :> "t" @@
    "U" :> "u" @@ "V" :> "v" @@ "W" :> "w" @@ "X" :> "x" @@ "Y" :> "y" @@
    "Z" :> "z" @@ "É" :> "é" @@ "È" :> "è" @@ "À" :> "à" @@ "Ç" :> "ç"

\* str.lower, one character
LowerChar(c) == IF c \in DOMAIN LowerTable THEN LowerTable[c] ELSE c

\* str.lower
Lower(s) == SubSeq([i \in 1..Len(s) |-> LowerChar(s[i])], 1, Len(s))

\* s.startswith(p)
StartsWith(s, p) == Len(s) >= Len(p) /\ SubSeq(s, 1, Len(p)) = p

\* whether p occurs in s at position i
OccursAt(s, p, i) ==
    /\ i + Len(p) - 1 <= Len(s)
    /\ p # <<>> => s[i] = p[1]
    /\ SubSeq(s, i, i + Len(p) - 1) = p

\* p in s
Contains(s, p) == \E i \in 1..(Len(s) - Len(p) + 1) : OccursAt(s, p, i)

\* s.find(p, from - 1) + 1: the first position of p in s at or after `from`,
\* 0 when there is none
FindFrom(s, p, from) ==
    IF \E i \in from..(Len(s) - Len(p) + 1) : OccursAt(s, p, i)
    THEN CHOOSE i \in from..(Len(s) - Len(p) + 1) :
            OccursAt(s, p, i) /\ \A j \in from..(i - 1) : ~OccursAt(s, p, j)
    ELSE 0

Find(s, p) == FindFrom(s, p, 1)

\* s.count(p): the non-overlapping occurrences of p, scanning left to right
RECURSIVE CountFrom(_, _, _)
CountFrom(s, p, from) ==
    LET i == FindFrom(s, p, from)
    IN  IF i = 0 THEN 0 ELSE 1 + CountFrom(s, p, i + Len(p))

Count(s, p) == CountFrom(s, p, 1)

-----------------------------------------------------------------------------
(* urllib.parse.urlparse, as far as scheme, netloc and path *)

SchemeChars == Range(LowerAZ) \cup Range(UpperAZ) \cup Range(Digits) \cup {"+", "-", "."}

IsAlpha(c) == c \in Range(LowerAZ) \cup Range(UpperAZ)

\* whether the colon at position i ends a scheme: it is not the first
\* character, the url starts with a letter, and only scheme characters precede
SchemeEndAt(url, i) ==
    IF i > 1 /\ IsAlpha(url[1]) /\ \A k \in 1..(i - 1) : url[k] \in SchemeChars
    THEN i ELSE 0

\* the position of the colon that ends the scheme, 0 when the url has no scheme
SchemeEnd(url) == SchemeEndAt(url, Find(url, <<":">>))

\* the first position at or after `from` of one of delims, Len(s) + 1 when none
DelimFrom(s, from, delims) ==
    IF \E i \in from..Len(s) : s[i] \in delims
    THEN CHOOSE i \in from..Len(s) :
            s[i] \in delims /\ \A j \in from..(i - 1) : s[j] \notin delims
    ELSE Len(s) + 1

\* the path is what precedes the query and the fragment
UrlParts(scheme, netloc, after) ==
    [scheme |-> scheme, netloc |-> netloc,
     path |-> SubSeq(after, 1, DelimFrom(after, 1, {"?", "#"}) - 1)]

\* the netloc is what follows // up to position e, that of the next / ? or #
UrlNetlocTo(scheme, rest, e) ==
    UrlParts(scheme, SubSeq(rest, 3, e - 1), SubSeq(rest, e, Len(rest)))

\* rest is the url after its scheme
UrlAfterScheme(scheme, rest) ==
    IF StartsWith(rest, <<"/","/">>)
    THEN UrlNetlocTo(scheme, rest, DelimFrom(rest, 3, {"/", "?", "#"}))
    ELSE UrlParts(scheme, <<>>, rest)

\* i is the position of the colon that ends the scheme, 0 when there is none
UrlSplitAt(url, i) ==
    IF i > 0 THEN UrlAfterScheme(Lower(SubSeq(url, 1, i - 1)), SubSeq(url, i + 1, Len(url)))
    ELSE UrlAfterScheme(<<>>, url)

urlparse(url) == UrlSplitAt(url, SchemeEnd(url))

-----------------------------------------------------------------------------
(* normalize_base_url *)

\* line 59: `if not url.startswith("http")`
NeedsSchemePrefix(url) == ~StartsWith(url, <<"h","t","t","p">>)

\* line 62: f"{parsed.scheme}://{parsed.netloc}"
FormatBase(parsed) == parsed.scheme \o <<":","/","/">> \o parsed.netloc

normalize_base_url(url) ==
    FormatBase(urlparse(IF NeedsSchemePrefix(url) THEN <<"h","t","t","p","s",":","/","/">> \o url ELSE url))

-----------------------------------------------------------------------------
(* tldextract.extract and is_internal_link *)

\* the public suffixes the modelled hosts end with
PublicSuffixes == {<<"c","o","m">>, <<"f","r">>, <<"o","r","g">>, <<"c","o",".","u","k">>}

EndsWith(s, p) == Len(s) >= Len(p) /\ SubSeq(s, Len(s) - Len(p) + 1, Len(s)) = p

\* the host name in rest, a url without its scheme: up to the port or the path
HostOfRest(rest) == Lower(SubSeq(rest, 1, DelimFrom(rest, 1, {"/", "?", "#", ":"}) - 1))

\* i is the position of :// in s, 0 when there is none
HostNameAt(s, i) == HostOfRest(IF i > 0 THEN SubSeq(s, i + 3, Len(s)) ELSE s)

\* the host name tldextract works on: scheme, port and path removed, lower case
HostName(s) == HostNameAt(s, Find(s, <<":","/","/">>))

\* the part of s after its last dot (all of s when it has none)
RECURSIVE LastLabel(_)
LastLabelAt(s, i) == IF i = 0 THEN s ELSE LastLabel(SubSeq(s, i + 1, Len(s)))
LastLabel(s) == LastLabelAt(s, Find(s, <<".">>))

\* ext.domain is the label before the suffix
JoinDomain(h, suffix) ==
    LastLabel(SubSeq(h, 1, Len(h) - Len(suffix) - 1)) \o <<".">> \o suffix

\* ext.suffix is the longest public suffix the host ends with, "" when none
DomainAmong(h, matching) ==
    IF matching = {} THEN LastLabel(h) \o <<".">>
    ELSE JoinDomain(h, CHOOSE x \in matching : \A y \in matching : Len(y) <= Len(x))

DomainOfHost(h) == DomainAmong(h, {x \in PublicSuffixes : EndsWith(h, <<".">> \o x)})

\* f"{ext.domain}.{ext.suffix}" of tldextract.extract(s)
RegisteredDomain(s) == DomainOfHost(HostName(s))

\* lines 70-74, netloc being urlparse(link).netloc
InternalNetloc(netloc, base_domain) ==
    IF netloc = <<>> THEN TRUE ELSE RegisteredDomain(netloc) = base_domain

is_internal_link(link, base_domain) ==
    IF link = <<>> THEN FALSE ELSE InternalNetloc(urlparse(link).netloc, base_domain)

\* urllib.parse.urljoin against a base of the form scheme://host, for an href
\* that is empty, absolute, protocol-relative, path-absolute or path-relative
urljoin(base, href) ==
    IF href = <<>> THEN base
    ELSE IF SchemeEnd(href) > 0 THEN href
    ELSE IF StartsWith(href, <<"/","/">>) THEN urlparse(base).scheme \o <<":">> \o href
    ELSE IF href[1] \in {"/", "?", "#"} THEN base \o href
    ELSE base \o <<"/">> \o href

-----------------------------------------------------------------------------
(* find_candidate_links *)

\* the stems of lines 113-116
LinkKeywords ==
    << <<"r","s","e">>, <<"r","e","s","p","o","n","s","a","b","i","l","i","t","e">>, <<"r","e","s","p","o","n","s","a","b","i","l","i","t","é">>,
       <<"d","e","v","e","l","o","p","p","e","m","e","n","t","-","d","u","r","a","b","l","e">>, <<"d","e","v","e","l","o","p","p","e","m","e","n","t"," ","d","u","r","a","b","l","e">>,
       <<"d","u","r","a","b","l","e">>, <<"e","n","v","i","r","o","n","n","e","m","e","n","t">>, <<"c","a","r","b","o","n","e">>, <<"c","o","2">>,
       <<"c","s","r">>, <<"s","u","s","t","a","i","n","a","b">> >>

\* what one stem adds to the score: `if kw in url_lower or kw in text: score += 5`
ScoreWeight(inUrl, inText) == IF inUrl \/ inText THEN 5 ELSE 0

\* the loop of lines 112-118 from stem k on
RECURSIVE ScoreFrom(_, _, _)
ScoreFrom(url_lower, text, k) ==
    IF k > Len(LinkKeywords) THEN 0
    ELSE ScoreWeight(Contains(url_lower, LinkKeywords[k]), Contains(text, LinkKeywords[k]))
         + ScoreFrom(url_lower, text, k + 1)

\* the list `links` of lines 102-120: the internal anchors as (url, score), in
\* document order
RECURSIVE ScoredLinksFrom(_, _, _, _)
ScoredLinksFrom(base, base_domain, anchors, i) ==
    IF i > Len(anchors) THEN <<>>
    ELSE LET full_url == urljoin(base, anchors[i].href)
             rest == ScoredLinksFrom(base, base_domain, anchors, i + 1)
         IN  IF ~is_internal_link(full_url, base_domain) THEN rest
             ELSE <<[url |-> full_url,
                     score |-> ScoreFrom(Lower(full_url), Lower(anchors[i].text), 1)]>>
                  \o rest

ScoredLinks(base, doc) ==
    ScoredLinksFrom(base, RegisteredDomain(base), doc.anchors, 1)

\* the number of leading elements of s whose score is at least sc
RECURSIVE AtLeastPrefix(_, _)
AtLeastPrefix(s, sc) ==
    IF s = <<>> \/ Head(s).score < sc THEN 0 ELSE 1 + AtLeastPrefix(Tail(s), sc)

\* a variant that sorts without reverse=True
RECURSIVE SortedAscending(_)
SortedAscending(links) ==
    IF links = <<>> THEN <<>>
    ELSE LET done == SortedAscending(SubSeq(links, 1, Len(links) - 1))
             x == links[Len(links)]
             n == Len(SelectSeq(done, LAMBDA y : y.score <= x.score))
         IN  SubSeq(done, 1, n) \o <<x>> \o SubSeq(done, n + 1, Len(done))

\* sorted(links, key=lambda x: x[1], reverse=True): by score, highest first,
\* equal scores in their original order
RECURSIVE SortedByScore(_)
SortedByScore(links) ==
    IF links = <<>> THEN <<>>
    ELSE LET done == SortedByScore(SubSeq(links, 1, Len(links) - 1))
             x == links[Len(links)]
             n == AtLeastPrefix(done, x.score)
         IN  SubSeq(done, 1, n) \o <<x>> \o SubSeq(done, n + 1, Len(done))

\* the loop of lines 125-130 from element i on
RECURSIVE RankFrom(_, _, _, _, _)
RankFrom(links, i, seen, ranked_links, max_links) ==
    IF i > Len(links) THEN ranked_links
    ELSE LET url == links[i].url
             ranked == IF url \notin seen THEN Append(ranked_links, url) ELSE ranked_links
         IN  IF Len(ranked) >= max_links THEN ranked
             ELSE RankFrom(links, i + 1, seen \cup {url}, ranked, max_links)

find_candidate_links(base, doc, max_links) ==
    RankFrom(SortedByScore(ScoredLinks(base, doc)), 1, {}, <<>>, max_links)

-----------------------------------------------------------------------------
(* Python float arithmetic.  A float is modelled by the exact rational it  *)
(* stands for, [n |-> numerator, d |-> denominator] in lowest terms, and   *)
(* round(x, k) by rounding that rational half-to-even at k decimals.  The  *)
(* two agree wherever the exact value is not a tie that binary floating    *)
(* point cannot represent; the inputs of the specifications are of that    *)
(* kind.                                                                   *)

RECURSIVE GCD(_, _)
GCD(a, b) == IF b = 0 THEN a ELSE GCD(b, a % b)

Rat(n, d) == LET g == GCD(n, d) IN [n |-> n \div g, d |-> d \div g]

RMul(x, y) ==
    LET g1 == GCD(x.n, y.d)
        g2 == GCD(y.n, x.d)
    IN  Rat((x.n \div g1) * (y.n \div g2), (x.d \div g2) * (y.d \div g1))

RDiv(x, y) == RMul(x, [n |-> y.d, d |-> y.n])

\* <<floor(n/d * 10^k), the remainder over d>>, one decimal digit at a time
RECURSIVE Shifted(_, _, _)
Shifted(n, d, k) ==
    IF k = 0 THEN <<n \div d, n % d>>
    ELSE LET p == Shifted(n, d, k - 1)
         IN  <<p[1] * 10 + (p[2] * 10) \div d, (p[2] * 10) % d>>

\* round(x, k) in units of 10^-k, for x >= 0: to the nearest, a tie to the even
Round(x, k) ==
    LET p == Shifted(x.n, x.d, k)
        q == p[1]
        r == p[2]
    IN  IF 2 * r > x.d THEN q + 1
        ELSE IF 2 * r < x.d THEN q
        ELSE IF q % 2 = 0 THEN q ELSE q + 1

-----------------------------------------------------------------------------
(* count_keywords, analyze_text *)

RSE_KEYWORDS ==
    << <<"r","s","e">>, <<"r","e","s","p","o","n","s","a","b","i","l","i","t","é"," ","s","o","c","i","é","t","a","l","e">>,
       <<"r","e","s","p","o","n","s","a","b","i","l","i","t","é"," ","s","o","c","i","a","l","e">>, <<"r","e","s","p","o","n","s","a","b","i","l","i","t","e"," ","s","o","c","i","é","t","a","l","e">>,
       <<"r","e","s","p","o","n","s","a","b","i","l","i","t","e"," ","s","o","c","i","a","l","e">>, <<"d","é","v","e","l","o","p","p","e","m","e","n","t"," ","d","u","r","a","b","l","e">>,
       <<"d","e","v","e","l","o","p","p","e","m","e","n","t"," ","d","u","r","a","b","l","e">>, <<"d","u","r","a","b","l","e">>, <<"e","n","v","i","r","o","n","n","e","m","e","n","t">>,
       <<"e","n","v","i","r","o","n","n","e","m","e","n","t","a","l">>, <<"i","m","p","a","c","t"," ","e","n","v","i","r","o","n","n","e","m","e","n","t","a","l">>,
       <<"t","r","a","n","s","i","t","i","o","n"," ","é","c","o","l","o","g","i","q","u","e">>, <<"t","r","a","n","s","i","t","i","o","n"," ","e","c","o","l","o","g","i","q","u","e">>,
       <<"t","r","a","n","s","i","t","i","o","n"," ","é","n","e","r","g","é","t","i","q","u","e">>, <<"t","r","a","n","s","i","t","i","o","n"," ","e","n","e","r","g","e","t","i","q","u","e">>,
       <<"e","s","g">>, <<"c","s","r">>, <<"s","u","s","t","a","i","n","a","b","i","l","i","t","y">>, <<"s","u","s","t","a","i","n","a","b","l","e">>,
       <<"s","u","s","t","a","i","n","a","b","l","e"," ","d","e","v","e","l","o","p","m","e","n","t">> >>

CARBON_KEYWORDS ==
    << <<"b","i","l","a","n"," ","c","a","r","b","o","n","e">>, <<"e","m","p","r","e","i","n","t","e"," ","c","a","r","b","o","n","e">>,
       <<"é","m","i","s","s","i","o","n","s"," ","d","e"," ","c","o","2">>, <<"e","m","i","s","s","i","o","n","s"," ","d","e"," ","c","o","2">>,
       <<"é","m","i","s","s","i","o","n","s"," ","c","a","r","b","o","n","e">>, <<"e","m","i","s","s","i","o","n","s"," ","c","a","r","b","o","n","e">>,
       <<"g","a","z"," ","à"," ","e","f","f","e","t"," ","d","e"," ","s","e","r","r","e">>, <<"g","a","z"," ","a"," ","e","f","f","e","t"," ","d","e"," ","s","e","r","r","e">>, <<"c","o","2">>,
       <<"r","é","d","u","c","t","i","o","n"," ","d","e","s"," ","é","m","i","s","s","i","o","n","s">>, <<"r","e","d","u","c","t","i","o","n"," ","d","e","s"," ","e","m","i","s","s","i","o","n","s">>,
       <<"n","e","u","t","r","a","l","i","t","é"," ","c","a","r","b","o","n","e">>, <<"n","e","u","t","r","a","l","i","t","e"," ","c","a","r","b","o","n","e">>,
       <<"d","é","c","a","r","b","o","n","a","t","i","o","n">>, <<"d","e","c","a","r","b","o","n","a","t","i","o","n">>, <<"s","c","o","p","e"," ","1">>,
       <<"s","c","o","p","e"," ","2">>, <<"s","c","o","p","e"," ","3">> >>

GREEN_IT_KEYWORDS ==
    << <<"n","u","m","é","r","i","q","u","e"," ","r","e","s","p","o","n","s","a","b","l","e">>, <<"n","u","m","e","r","i","q","u","e"," ","r","e","s","p","o","n","s","a","b","l","e">>,
       <<"é","c","o","-","c","o","n","c","e","p","t","i","o","n">>, <<"e","c","o","-","c","o","n","c","e","p","t","i","o","n">>, <<"e","c","o"," ","c","o","n","c","e","p","t","i","o","n">>,
       <<"s","i","t","e"," ","é","c","o","-","c","o","n","ç","u">>, <<"s","i","t","e"," ","e","c","o","-","c","o","n","c","u">>, <<"g","r","e","e","n"," ","i","t">>,
       <<"h","é","b","e","r","g","e","m","e","n","t"," ","v","e","r","t">>, <<"h","e","b","e","r","g","e","m","e","n","t"," ","v","e","r","t">>,
       <<"h","é","b","e","r","g","e","m","e","n","t"," ","é","c","o","l","o","g","i","q","u","e">>, <<"h","e","b","e","r","g","e","m","e","n","t"," ","e","c","o","l","o","g","i","q","u","e">>,
       <<"d","a","t","a"," ","c","e","n","t","e","r"," ","v","e","r","t">>, <<"s","o","b","r","i","é","t","é"," ","n","u","m","é","r","i","q","u","e">>,
       <<"s","o","b","r","i","e","t","e"," ","n","u","m","e","r","i","q","u","e">> >>

\* the loop of lines 138-141 from keyword k on
RECURSIVE CountKeywordsFrom(_, _, _)
CountKeywordsFrom(text_lower, keywords, k) ==
    IF k > Len(keywords) THEN 0
    ELSE LET kw_lower == Lower(keywords[k])
         IN  (IF Contains(text_lower, kw_lower) THEN Count(text_lower, kw_lower) ELSE 0)
             + CountKeywordsFrom(text_lower, keywords, k + 1)

count_keywords(text, keywords) == CountKeywordsFrom(Lower(text), keywords, 1)

\* int(hits / max_hits * 100); for max_hits = 20 and hits in 1..19 the float
\* product is within 10^-13 above 5 * hits, so that int() gives floor
score_from_hits(hits, max_hits) ==
    IF hits <= 0 THEN 0
    ELSE IF hits >= max_hits THEN 100
    ELSE (hits * 100) \div max_hits

analyze_text(text) ==
    LET rse_hits == count_keywords(text, RSE_KEYWORDS)
        carbon_hits == count_keywords(text, CARBON_KEYWORDS)
        green_it_hits == count_keywords(text, GREEN_IT_KEYWORDS)
    IN  [rse_hits |-> rse_hits,
         carbon_hits |-> carbon_hits,
         green_it_hits |-> green_it_hits,
         rse_score |-> score_from_hits(rse_hits, 20),
         carbon_score |-> score_from_hits(carbon_hits, 20),
         green_it_score |-> score_from_hits(green_it_hits, 20)]

-----------------------------------------------------------------------------
(* analyze_page.  A fetched document is the record of what BeautifulSoup    *)
(* finds in it: title, anchors (href, text), link elements (href, rel),     *)
(* the font-family values of its inline styles, its text as extract_text    *)
(* returns it, the numbers of img, script, h1, h2, h3 elements, and its     *)
(* size in bytes.                                                           *)

\* the hrefs of lines 197-200, in document order
RECURSIVE FontHrefsFrom(_, _)
FontHrefsFrom(links, i) ==
    IF i > Len(links) THEN <<>>
    ELSE LET href == Lower(links[i].href)
         IN  (IF Contains(href, <<"f","o","n","t","s",".","g","o","o","g","l","e","a","p","i","s",".","c","o","m">>) \/ Contains(href, <<"f","o","n","t">>)
              THEN <<links[i].href>> ELSE <<>>)
             \o FontHrefsFrom(links, i + 1)

\* the orders in which a set can iterate
SetOrders(S) == {o \in [1..Cardinality(S) -> S] : Range(o) = S}

Reversed(o) == [i \in 1..Len(o) |-> o[Len(o) + 1 - i]]

\* the str hash seeds told apart: PYTHONHASHSEED is random per process
HashSeeds == {"s1", "s2"}

\* list(set(...)): a set of str iterates in an order that its elements'
\* hashes fix, the same all through one process and another under another seed
ListOfSet(S, h) ==
    LET order == CHOOSE o \in SetOrders(S) : TRUE
    IN  IF h = "s1" THEN order ELSE Reversed(order)

\* lines 196-203
FontResources(doc, h) == ListOfSet(Range(FontHrefsFrom(doc.links, 1)), h)

\* round(html_bytes / 1024, 1), in tenths of a KB
HtmlKb(html_bytes) == Round(Rat(html_bytes, 1024), 1)

IsStylesheet(link) == \E i \in 1..Len(link.rel) : Lower(link.rel[i]) = <<"s","t","y","l","e","s","h","e","e","t">>

\* the page_info of lines 208-222
PageInfo(doc, url, font_resources, text_scores) ==
    [url |-> url,
     title |-> doc.title,
     html_kb |-> HtmlKb(doc.bytes),
     num_images |-> doc.images,
     num_scripts |-> doc.scripts,
     num_stylesheets |-> Len(SelectSeq(doc.links, IsStylesheet)),
     headings_h1 |-> doc.h1,
     headings_h2 |-> doc.h2,
     headings_h3 |-> doc.h3,
     num_inline_fonts |-> Cardinality(Range(doc.font_families)),
     font_resources |-> font_resources,
     text |-> doc.text,
     rse_hits |-> text_scores.rse_hits,
     carbon_hits |-> text_scores.carbon_hits,
     green_it_hits |-> text_scores.green_it_hits,
     rse_score |-> text_scores.rse_score,
     carbon_score |-> text_scores.carbon_score,
     green_it_score |-> text_scores.green_it_score]

\* h is the hash seed of the process
analyze_page(doc, url, h) ==
    PageInfo(doc, url, FontResources(doc, h), analyze_text(doc.text))

-----------------------------------------------------------------------------
(* estimate_site_carbon *)

DEFAULT_WEIGHT_MULTIPLIER == Rat(30, 10)
DEFAULT_ENERGY_PER_GB_KWH == Rat(5, 10)
DEFAULT_CARBON_INTENSITY_G_PER_KWH == Rat(300, 1)

\* a variant with decimal units: 1000 * 1000
KbPerGbDecimal == Rat(1000 * 1000, 1)

\* the divisor of line 357: 1024 * 1024
KbPerGb == Rat(1024 * 1024, 1)

\* lines 356-376.  The figures returned are in the units of their rounding:
\* avg_kb_per_page in tenths of a KB, gco2_per_page_view in 10^-4 g, the kg
\* figures in hundredths of a kg
EstimateChain(avg_html_kb, monthly_page_views, weight_multiplier, energy_per_gb_kwh, carbon_intensity_g_per_kwh) ==
    LET avg_kb_per_page == RMul(avg_html_kb, weight_multiplier)
        gb_per_view == RDiv(avg_kb_per_page, KbPerGb)
        kwh_per_view == RMul(gb_per_view, energy_per_gb_kwh)
        gco2_per_view == RMul(kwh_per_view, carbon_intensity_g_per_kwh)
        monthly_gco2 == RMul(gco2_per_view, Rat(monthly_page_views, 1))
        monthly_kgco2 == RDiv(monthly_gco2, Rat(1000, 1))
        yearly_kgco2 == RMul(monthly_kgco2, Rat(12, 1))
    IN  [avg_kb_per_page |-> Round(avg_kb_per_page, 1),
         gco2_per_page_view |-> Round(gco2_per_view, 4),
         monthly_kgco2 |-> Round(monthly_kgco2, 2),
         yearly_kgco2 |-> Round(yearly_kgco2, 2),
         assumptions |-> [monthly_page_views |-> monthly_page_views,
                          weight_multiplier |-> weight_multiplier,
                          energy_per_gb_kwh |-> energy_per_gb_kwh,
                          carbon_intensity_g_per_kwh |-> carbon_intensity_g_per_kwh]]

\* avg_html_kb = site_result.get("avg_html_kb", 0.0), and no check
EstimateDefaultingSize(site_result, monthly_page_views, weight_multiplier, energy_per_gb_kwh, carbon_intensity_g_per_kwh) ==
    EstimateChain(IF "avg_html_kb" \in DOMAIN site_result
                  THEN Rat(site_result.avg_html_kb, 10) ELSE Rat(0, 1),
                  monthly_page_views, weight_multiplier, energy_per_gb_kwh,
                  carbon_intensity_g_per_kwh)

\* site_result.avg_html_kb is in tenths of a KB (it is a round(x, 1))
estimate_site_carbon(site_result, monthly_page_views, weight_multiplier, energy_per_gb_kwh, carbon_intensity_g_per_kwh) ==
    IF "avg_html_kb" \notin DOMAIN site_result THEN [kind |-> "ValueError"]
    ELSE EstimateChain(Rat(site_result.avg_html_kb, 10), monthly_page_views,
                       weight_multiplier, energy_per_gb_kwh, carbon_intensity_g_per_kwh)

-----------------------------------------------------------------------------
(* fetch_page, against a fetch layer `answers`: for each path of the site  *)
(* x.fr, how the server answers a GET of it.                               *)

USER_AGENT == "CarbonPOCBot/0.1 (+for research & prospecting)"
REQUEST_TIMEOUT == 10

Doc(title, anchors, links, font_families, text, bytes, counts) ==
    [title |-> title, anchors |-> anchors, links |-> links,
     font_families |-> font_families, text |-> text, bytes |-> bytes,
     images |-> counts[1], scripts |-> counts[2],
     h1 |-> counts[3], h2 |-> counts[4], h3 |-> counts[5]]

Anchor(href, text) == [href |-> href, text |-> text]
LinkEl(href, rel) == [href |-> href, rel |-> rel]

GoogleFont == <<"h","t","t","p","s",":","/","/","f","o","n","t","s",".","g","o","o","g","l","e","a","p","i","s",".","c","o","m","/","c","s","s","?","f","a","m","i","l","y","=","R","o","b","o","t","o">>

\* the documents the site can serve as its home page; the sizes of the site's
\* documents are such that no average of their html_kb is a rounding tie, where
\* a float and the exact quotient could round apart
HomePages ==
    [A |-> Doc("Accueil",
               << Anchor(<<"/","a">>, <<>>),
                  Anchor(<<"/","r","s","e">>, <<"R","S","E">>),
                  Anchor(<<"h","t","t","p","s",":","/","/","x",".","f","r">>, <<"a","c","c","u","e","i","l">>),
                  Anchor(<<"/","a">>, <<"B","i","l","a","n"," ","C","O","2">>),
                  Anchor(<<"h","t","t","p","s",":","/","/","y",".","c","o","m","/","r","s","e">>, <<"p","a","r","t","e","n","a","i","r","e">>),
                  Anchor(<<"/","C","a","r","b","o","n","e">>, <<"n","o","t","r","e"," ","e","n","v","i","r","o","n","n","e","m","e","n","t">>),
                  Anchor(<<"/","b">>, <<>>) >>,
               << LinkEl(GoogleFont, <<<<"s","t","y","l","e","s","h","e","e","t">>>>),
                  LinkEl(<<"/","s","t","a","t","i","c","/","F","o","n","t",".","w","o","f","f","2">>, <<<<"p","r","e","l","o","a","d">>>>),
                  LinkEl(<<"/","s","t","y","l","e",".","c","s","s">>, <<<<"S","t","y","l","e","s","h","e","e","t">>>>),
                  LinkEl(GoogleFont, <<<<"s","t","y","l","e","s","h","e","e","t">>>>) >>,
               <<<<"a","r","i","a","l",","," ","s","a","n","s","-","s","e","r","i","f">>, <<"a","r","i","a","l",","," ","s","a","n","s","-","s","e","r","i","f">>>>,
               <<"A","c","c","u","e","i","l"," ","R","S","E"," ","d","u","r","a","b","l","e">>, 2048, <<3, 2, 1, 2, 0>>),
     B |-> Doc("Bienvenue",
               << Anchor(<<"/","b">>, <<"c","o","n","t","a","c","t">>), Anchor(<<"/","a">>, <<"c","l","i","m","a","t">>) >>,
               << LinkEl(<<"/","f","o","n","t","s","/","m","a","i","n",".","c","s","s">>, <<<<"s","t","y","l","e","s","h","e","e","t">>>>) >>,
               <<>>,
               <<"N","o","t","r","e"," ","B","i","l","a","n"," ","C","a","r","b","o","n","e"," ","2","0","2","4">>, 1280, <<1, 0, 1, 0, 0>>),
     C |-> Doc("", <<>>, <<>>, <<>>, <<"e","n"," ","t","r","a","v","a","u","x">>, 410, <<0, 0, 0, 0, 0>>)]

Co2Text == <<"c","o","2"," ","c","o","2"," ","c","o","2"," ","c","o","2"," ","c","o","2"," ","c","o","2"," ","c","o","2"," ","c","o","2"," ","c","o","2"," ","c","o","2"," ","c","o","2"," ","c","o","2"," ","c","o","2"," ","c","o","2"," ","c","o","2"," ","c","o","2"," ","c","o","2"," ","c","o","2"," ","c","o","2"," ","c","o","2">>

\* the documents of the other paths
SitePages ==
    [a |-> Doc("Climat", <<>>, <<>>, <<>>, Co2Text, 2867, <<0, 1, 1, 0, 0>>),
     rse |-> Doc("RSE", <<>>, << LinkEl(<<"/","f","o","n","t","s","/","m","a","i","n",".","c","s","s">>, <<<<"s","t","y","l","e","s","h","e","e","t">>>>) >>,
                 <<<<"g","e","o","r","g","i","a">>>>,
                 <<"p","o","l","i","t","i","q","u","e"," ","r","s","e"," ","e","t"," ","d","é","v","e","l","o","p","p","e","m","e","n","t"," ","d","u","r","a","b","l","e">>, 5325, <<2, 1, 1, 3, 1>>),
     carbone |-> Doc("Carbone", <<>>, <<>>, <<>>,
                     <<"B","i","l","a","n"," ","c","a","r","b","o","n","e",","," ","s","c","o","p","e"," ","1"," ","e","t"," ","s","c","o","p","e"," ","2",","," ","g","r","e","e","n"," ","i","t">>, 4096,
                     <<0, 0, 1, 1, 1>>),
     b |-> Doc("Contact", <<>>, <<>>, <<>>, <<"c","o","n","t","a","c","t">>, 819, <<0, 0, 0, 0, 0>>)]

\* the name of the page a path of the site serves, "" when it serves none
PageOfPath(path) ==
    IF path = <<>> THEN "home"
    ELSE IF path = <<"/","a">> THEN "a"
    ELSE IF path = <<"/","r","s","e">> THEN "rse"
    ELSE IF path = <<"/","C","a","r","b","o","n","e">> THEN "carbone"
    ELSE IF path = <<"/","b">> THEN "b"
    ELSE ""

PageNames == {"home", "a", "rse", "carbone", "b"}

\* how the server can answer a GET of each page
AnswerKinds ==
    [home |-> {"ok", "timeout"}, a |-> {"ok", "pdf"}, rse |-> {"ok", "404"},
     carbone |-> {"ok", "timeout"}, b |-> {"ok", "empty"}]

FetchLayers ==
    {[home |-> h, answers |-> an] :
        h \in DOMAIN HomePages,
        an \in {f \in [PageNames -> {"ok", "timeout", "pdf", "404", "empty"}] :
                  \A n \in PageNames : f[n] \in AnswerKinds[n]}}

EmptyDoc == Doc("", <<>>, <<>>, <<>>, <<>>, 0, <<0, 0, 0, 0, 0>>)

\* the response to a GET the server answers in the way `answer`
Answer(answer, doc) ==
    IF answer = "timeout" THEN [kind |-> "exception"]
    ELSE [kind |-> "response",
          status_code |-> IF answer = "404" THEN 404 ELSE 200,
          content_type |-> IF answer = "pdf" THEN <<"a","p","p","l","i","c","a","t","i","o","n","/","p","d","f">>
                           ELSE <<"t","e","x","t","/","h","t","m","l",";"," ","c","h","a","r","s","e","t","=","u","t","f","-","8">>,
          text |-> IF answer = "empty" THEN EmptyDoc ELSE doc]

\* the response to a GET of page `page` of the site
Serve(layer, page) ==
    IF page = ""
    THEN [kind |-> "response", status_code |-> 404,
          content_type |-> <<"t","e","x","t","/","h","t","m","l">>, text |-> EmptyDoc]
    ELSE Answer(layer.answers[page],
                IF page = "home" THEN HomePages[layer.home] ELSE SitePages[page])

\* requests raises on a url without http(s) scheme or host, and on a host
\* that is not the site's
Respond(layer, u) ==
    IF u.scheme \notin {<<"h","t","t","p">>, <<"h","t","t","p","s">>} \/ u.netloc = <<>>
    THEN [kind |-> "exception"]
    ELSE IF RegisteredDomain(u.netloc) # <<"x",".","f","r">> THEN [kind |-> "exception"]
    ELSE Serve(layer, PageOfPath(u.path))

\* requests.get(url, ...): the response, or the exception requests raises
Response(layer, url) == Respond(layer, urlparse(url))

\* lines 81-85
Accepted(resp) ==
    IF resp.kind = "exception" THEN None
    ELSE IF resp.status_code = 200 /\ Contains(resp.content_type, <<"t","e","x","t","/","h","t","m","l">>)
    THEN resp.text
    ELSE None

fetch_page(layer, url) == Accepted(Response(layer, url))

\* `not html`: None or the empty string
Falsy(doc) == IF doc = None THEN TRUE ELSE doc.bytes = 0

-----------------------------------------------------------------------------
(* analyze_website: the crawl loop and the aggregation *)

MAX_PAGES == 20
CANDIDATE_CAP == 50

\* a variant that does not count the home page
CapReachedIgnoringHome(pages, cap) == Len(pages) - 1 >= cap

\* a variant that tests > instead of >=
CapReachedOffByOne(pages, cap) == Len(pages) > cap

\* `if len(pages_data) >= max_pages: break`
CapReached(pages, cap) == Len(pages) >= cap

\* a variant without the visited test
NeverVisited(link, seen) == FALSE

\* `if link in visited: continue`
AlreadyVisited(link, seen) == link \in seen

\* a variant that breaks where the code continues
StopAfterFailure(links, i) == Len(links) + 1

\* `if not html: continue`: the loop goes on with the next candidate
NextAfterFailure(links, i) == i + 1

\* the values of field `name` over the pages, in order
Field(pages, name) == [i \in 1..Len(pages) |-> pages[i][name]]

\* sum(...)
RECURSIVE Sum(_)
Sum(values) ==
    IF Len(values) = 0 THEN 0 ELSE values[1] + Sum(SubSeq(values, 2, Len(values)))

\* max(...) of a non-empty sequence
RECURSIVE Max(_)
Max(values) ==
    IF Len(values) = 1 THEN values[1]
    ELSE LET m == Max(SubSeq(values, 2, Len(values)))
         IN  IF values[1] >= m THEN values[1] ELSE m

\* a variant that sums the scores
SiteScoreSum(scores) == Sum(scores)

\* max(p["..._score"] for p in pages_data)
SiteScore(scores) == Max(scores)

\* the report of lines 232-237
FailedReport(base) ==
    [domain |-> urlparse(base).netloc,
     url |-> base,
     error |-> "Impossible de récupérer la page d'accueil",
     pages_details |-> <<>>]

\* lines 262-344; html_kb figures are in tenths of a KB, the summary is the
\* sequence of its four fragments
SiteReport(base, pages) ==
    LET total_rse_hits == Sum(Field(pages, "rse_hits"))
        total_carbon_hits == Sum(Field(pages, "carbon_hits"))
        total_green_it_hits == Sum(Field(pages, "green_it_hits"))
        has_bilan_carbone_explicit ==
            \E i \in 1..Len(pages) : Contains(Lower(pages[i].text), <<"b","i","l","a","n"," ","c","a","r","b","o","n","e">>)
        has_rse_content == total_rse_hits > 0
        has_carbon_mentions == total_carbon_hits > 0
        has_green_it == total_green_it_hits > 0
        pages_scanned == Len(pages)
        total_html_kb == Sum(Field(pages, "html_kb"))
        avg_html_kb == IF pages_scanned > 0
                       THEN Round(Rat(total_html_kb, 10 * pages_scanned), 1) ELSE 0
        all_font_resources == UNION {Range(pages[i].font_resources) : i \in 1..Len(pages)}
        summary ==
            << IF has_rse_content THEN "L'entreprise communique sur la RSE / l'environnement."
               ELSE "Aucun contenu RSE clair trouvé sur les pages analysées.",
               IF has_carbon_mentions
               THEN IF has_bilan_carbone_explicit
                    THEN "Mention explicite d'un bilan carbone."
                    ELSE "Mention d'émissions carbone / CO2, sans bilan carbone clairement identifié."
               ELSE "Aucune mention significative de carbone / CO2 trouvée.",
               IF has_green_it
               THEN "Des éléments de numérique responsable / green IT sont mentionnés."
               ELSE "Pas de mention de numérique responsable / site éco-conçu détectée.",
               <<"Crawl", pages_scanned, total_html_kb, avg_html_kb>> >>
    IN  [domain |-> RegisteredDomain(base),
         url |-> base,
         pages_scanned |-> pages_scanned,
         has_rse_content |-> has_rse_content,
         has_carbon_mentions |-> has_carbon_mentions,
         has_bilan_carbone_explicit |-> has_bilan_carbone_explicit,
         has_green_it |-> has_green_it,
         global_rse_score |-> SiteScore(Field(pages, "rse_score")),
         global_carbon_score |-> SiteScore(Field(pages, "carbon_score")),
         global_green_it_score |-> SiteScore(Field(pages, "green_it_score")),
         total_rse_hits |-> total_rse_hits,
         total_carbon_hits |-> total_carbon_hits,
         total_green_it_hits |-> total_green_it_hits,
         total_html_kb |-> total_html_kb,
         avg_html_kb |-> avg_html_kb,
         total_images |-> Sum(Field(pages, "num_images")),
         total_scripts |-> Sum(Field(pages, "num_scripts")),
         total_stylesheets |-> Sum(Field(pages, "num_stylesheets")),
         total_h1 |-> Sum(Field(pages, "headings_h1")),
         total_h2 |-> Sum(Field(pages, "headings_h2")),
         total_h3 |-> Sum(Field(pages, "headings_h3")),
         num_font_resources |-> Cardinality(all_font_resources),
         summary |-> summary,
         pages_details |-> pages]

-----------------------------------------------------------------------------
(* Idle values of the variables a specification does not use *)

CrawlIdle ==
    /\ pc = "idle" /\ net = None /\ hash_seed = "" /\ seed = <<>> /\ max_pages = 0
    /\ base_url = <<>> /\ candidate_links = <<>> /\ idx = 0 /\ visited = {}
    /\ pages_data = <<>> /\ html = None /\ requests = <<>> /\ report = None
    /\ carbon = None /\ prev = None
NormIdle == nz_pc = "idle" /\ nz_url = <<>> /\ nz_out = <<>>
LinksIdle == lk_pc = "idle" /\ lk_html = None /\ lk_max = 0 /\ lk_out = <<>>
CarbonIdle == ce_pc = "idle" /\ ce_in = None /\ ce_out = None

-----------------------------------------------------------------------------
(* Specification Spec: analyze_website, twice against the same fetch layer, *)
(* and estimate_site_carbon on the report                                   *)

MaxPagesArg == 3

Seeds == {<<"x",".","f","r">>, <<"h","t","t","p",":","/","/","x",".","f","r","/","i","n","d","e","x","?","x","=","1">>, <<"h","t","t","p","b","i","n",".","o","r","g">>}

\* monthly_page_views: the form's default and its bounds
ViewsArgs == {100, 10000, 1000000}

Init ==
    /\ pc = "start"
    /\ net \in FetchLayers
    /\ hash_seed \in HashSeeds
    /\ seed \in Seeds
    /\ max_pages \in (1..MaxPagesArg) \cup {MAX_PAGES}
    /\ base_url = <<>> /\ candidate_links = <<>> /\ idx = 0 /\ visited = {}
    /\ pages_data = <<>> /\ html = None /\ requests = <<>> /\ report = None
    /\ carbon = None /\ prev = None
    /\ NormIdle /\ LinksIdle /\ CarbonIdle

others == <<normVars, linkVars, carbonVars>>

\* line 228: base_url = normalize_base_url(url)
Start ==
    /\ pc = "start"
    /\ base_url' = normalize_base_url(seed)
    /\ pc' = "fetch_home"
    /\ UNCHANGED <<net, hash_seed, seed, max_pages, candidate_links, idx, visited, pages_data,
                   html, requests, report, carbon, prev, others>>

\* line 230: html_home = fetch_page(base_url)
FetchHome ==
    /\ pc = "fetch_home"
    /\ requests' = Append(requests, base_url)
    /\ html' = fetch_page(net, base_url)
    /\ pc' = "home"
    /\ UNCHANGED <<net, hash_seed, seed, max_pages, base_url, candidate_links, idx, visited,
                   pages_data, report, carbon, prev, others>>

\* lines 231-237: the home page is unavailable
HomeFailed ==
    /\ pc = "home"
    /\ Falsy(html)
    /\ report' = FailedReport(base_url)
    /\ pc' = "failed"
    /\ UNCHANGED <<net, hash_seed, seed, max_pages, base_url, candidate_links, idx, visited,
                   pages_data, html, requests, carbon, prev, others>>

\* lines 239-246: analyze the home page and rank its links
AnalyzeHome ==
    /\ pc = "home"
    /\ ~Falsy(html)
    /\ pages_data' = <<analyze_page(html, base_url, hash_seed)>>
    /\ candidate_links' = find_candidate_links(base_url, html, CANDIDATE_CAP)
    /\ visited' = {base_url}
    /\ idx' = 1
    /\ pc' = "loop"
    /\ UNCHANGED <<net, hash_seed, seed, max_pages, base_url, html, requests, report, carbon,
                   prev, others>>

\* the loop of lines 248-260 has a candidate to look at
InLoop ==
    /\ pc = "loop"
    /\ idx <= Len(candidate_links)
    /\ ~CapReached(pages_data, max_pages)

\* lines 251-252: the candidate was visited already
SkipVisited ==
    /\ InLoop
    /\ AlreadyVisited(candidate_links[idx], visited)
    /\ idx' = idx + 1
    /\ UNCHANGED <<pc, net, hash_seed, seed, max_pages, base_url, candidate_links, visited,
                   pages_data, html, requests, report, carbon, prev, others>>

\* lines 253-255: mark the candidate visited and fetch it
FetchCandidate ==
    /\ InLoop
    /\ ~AlreadyVisited(candidate_links[idx], visited)
    /\ visited' = visited \cup {candidate_links[idx]}
    /\ requests' = Append(requests, candidate_links[idx])
    /\ html' = fetch_page(net, candidate_links[idx])
    /\ pc' = "fetched"
    /\ UNCHANGED <<net, hash_seed, seed, max_pages, base_url, candidate_links, idx, pages_data,
                   report, carbon, prev, others>>

\* lines 256-257: the candidate is unavailable
CandidateFailed ==
    /\ pc = "fetched"
    /\ Falsy(html)
    /\ idx' = NextAfterFailure(candidate_links, idx)
    /\ pc' = "loop"
    /\ UNCHANGED <<net, hash_seed, seed, max_pages, base_url, candidate_links, visited,
                   pages_data, html, requests, report, carbon, prev, others>>

\* lines 259-260: analyze the candidate and append its record
AnalyzeCandidate ==
    /\ pc = "fetched"
    /\ ~Falsy(html)
    /\ pages_data' = Append(pages_data, analyze_page(html, candidate_links[idx], hash_seed))
    /\ idx' = idx + 1
    /\ pc' = "loop"
    /\ UNCHANGED <<net, hash_seed, seed, max_pages, base_url, candidate_links, visited, html,
                   requests, report, carbon, prev, others>>

\* the loop ends (exhausted, or `break`); lines 262-344 build the report
Finish ==
    /\ pc = "loop"
    /\ idx > Len(candidate_links) \/ CapReached(pages_data, max_pages)
    /\ report' = SiteReport(base_url, pages_data)
    /\ pc' = "done"
    /\ UNCHANGED <<net, hash_seed, seed, max_pages, base_url, candidate_links, idx, visited,
                   pages_data, html, requests, carbon, prev, others>>

\* estimate_site_carbon(report, monthly_page_views=views)
Estimate ==
    /\ pc \in {"done", "failed"}
    /\ carbon = None
    /\ \E views \in ViewsArgs :
          carbon' = estimate_site_carbon(report, views, DEFAULT_WEIGHT_MULTIPLIER,
                                         DEFAULT_ENERGY_PER_GB_KWH,
                                         DEFAULT_CARBON_INTENSITY_G_PER_KWH)
    /\ UNCHANGED <<pc, net, hash_seed, seed, max_pages, base_url, candidate_links, idx, visited,
                   pages_data, html, requests, report, prev, others>>

\* analyze_website is called again with the same arguments, the fetch layer
\* unchanged, by the same process or by a new one (the app restarted)
Rerun ==
    /\ pc \in {"done", "failed"}
    /\ prev = None
    /\ prev' = [kind |-> "run", report |-> report, requests |-> requests]
    /\ pc' = "start"
    /\ base_url' = <<>> /\ candidate_links' = <<>> /\ idx' = 0 /\ visited' = {}
    /\ pages_data' = <<>> /\ html' = None /\ requests' = <<>> /\ report' = None
    /\ carbon' = None
    /\ \E h \in HashSeeds : hash_seed' = h
    /\ UNCHANGED <<net, seed, max_pages, others>>

Next ==
    \/ Start \/ FetchHome \/ HomeFailed \/ AnalyzeHome
    \/ SkipVisited \/ FetchCandidate \/ CandidateFailed \/ AnalyzeCandidate
    \/ Finish \/ Estimate \/ Rerun

Spec == Init /\ [][Next]_vars

-----------------------------------------------------------------------------
(* Properties of analyze_website and of the estimate on its report *)

Min(a, b) == IF a <= b THEN a ELSE b

Terminated == pc \in {"done", "failed"}

\* whether a GET of url gives fetch_page a page
Fetches(url) == ~Falsy(fetch_page(net, url))

\* C1: the pages analyzed never exceed max_pages, the home page counted among
\* them, at every step of the crawl loop and in the report returned
C1_PageCap ==
    /\ Len(pages_data) <= max_pages
    /\ pc = "done" => report.pages_scanned <= max_pages

\* the cap ended a crawl that had candidates left
C1_Witness ==
    /\ pc = "done"
    /\ max_pages > 1
    /\ report.pages_scanned = max_pages
    /\ idx <= Len(candidate_links)

\* C2: when the home page is unavailable the run ends FAILED after the one
\* request for the home page, its report has domain, url, a non-empty error
\* and an empty page list and nothing else, and the estimate on that report
\* fails with the validation error; a run whose home page is available does
\* not end FAILED
C2_HomeUnavailable ==
    /\ pc \in {"loop", "fetched", "done"} => Fetches(base_url)
    /\ pc = "failed" =>
          /\ ~Fetches(base_url)
          /\ requests = <<base_url>>
          /\ DOMAIN report = {"domain", "url", "error", "pages_details"}
          /\ report.url = base_url
          /\ report.error # ""
          /\ report.pages_details = <<>>
          /\ carbon \in {None, [kind |-> "ValueError"]}

\* the estimate was asked on a FAILED report
C2_Witness == pc = "failed" /\ carbon = [kind |-> "ValueError"]

\* C3: a second run with the same seed against the same fetch layer sends the
\* same requests and returns a report equal to the first run's in every field
C3_SameReport ==
    (prev # None /\ Terminated) =>
        (requests = prev.requests /\ report = prev.report)

\* C7, for one taxonomy: the total is the sum of the pages' hits, the site
\* score is the greatest of the pages' scores and lies in 0..100, and the flag
\* tells whether the total is positive
C7_Taxonomy(pages, total, hits, global, score, flag) ==
    /\ total = Sum(Field(pages, hits))
    /\ \A i \in 1..Len(pages) : pages[i][score] <= global
    /\ \E i \in 1..Len(pages) : pages[i][score] = global
    /\ global \in 0..100
    /\ flag <=> total > 0

\* C7: in a report with pages, each taxonomy's total, score and flag aggregate
\* the page records as C7_Taxonomy says, and has_bilan_carbone_explicit tells
\* whether some page's text, lower-cased, contains "bilan carbone"
C7_Aggregation ==
    pc = "done" =>
        /\ C7_Taxonomy(report.pages_details, report.total_rse_hits, "rse_hits",
                       report.global_rse_score, "rse_score", report.has_rse_content)
        /\ C7_Taxonomy(report.pages_details, report.total_carbon_hits, "carbon_hits",
                       report.global_carbon_score, "carbon_score",
                       report.has_carbon_mentions)
        /\ C7_Taxonomy(report.pages_details, report.total_green_it_hits,
                       "green_it_hits", report.global_green_it_score,
                       "green_it_score", report.has_green_it)
        /\ report.has_bilan_carbone_explicit <=>
              \E i \in 1..Len(report.pages_details) :
                  Contains(Lower(report.pages_details[i].text), <<"b","i","l","a","n"," ","c","a","r","b","o","n","e">>)

\* two pages at least score on RSE, so that the maximum is not the sum, and a
\* page names a bilan carbone
C7_Witness ==
    /\ pc = "done"
    /\ report.global_rse_score > 0
    /\ Sum(Field(report.pages_details, "rse_score")) > report.global_rse_score
    /\ report.total_green_it_hits > 0
    /\ report.has_bilan_carbone_explicit

\* C8: the home page is requested first and is the first page record before
\* any candidate is requested; the report's pages are the home page followed,
\* in rank order, by the candidates other than base_url whose fetch gives a
\* page, as many as fit under max_pages
C8_SkipFailures ==
    /\ Len(requests) >= 1 => requests[1] = base_url
    /\ Len(requests) >= 2 => (Len(pages_data) >= 1 /\ pages_data[1].url = base_url)
    /\ pc = "done" =>
          LET ok == SelectSeq(SelectSeq(candidate_links, Fetches),
                              LAMBDA l : l # base_url)
              n == Min(max_pages, 1 + Cardinality(Range(ok)))
          IN  /\ report.pages_scanned = n
              /\ report.pages_details[1].url = base_url
              /\ \A i \in 2..n : report.pages_details[i].url = ok[i - 1]

\* a candidate failed and the next one was fetched and recorded
C8_Witness ==
    /\ pc = "done"
    /\ \E i \in 2..(Len(requests) - 1) :
          /\ ~Fetches(requests[i])
          /\ Fetches(requests[i + 1])
          /\ \E k \in 2..Len(pages_data) : pages_data[k].url = requests[i + 1]

\* C9: no url is requested twice in one run
C9_NoRefetch ==
    \A i, j \in 1..Len(requests) : requests[i] = requests[j] => i = j

\* the loop went past base_url among the candidates and past a candidate
\* whose fetch failed
C9_Witness ==
    /\ pc = "done"
    /\ \E i \in 1..(idx - 1) : i <= Len(candidate_links) /\ candidate_links[i] = base_url
    /\ \E i \in 2..Len(requests) : ~Fetches(requests[i])

\* C10 as stated: the requests of a run, the home page's included, never
\* exceed the page cap
C10_AttemptsWithinPageCap == Len(requests) <= max_pages

\* what bounds the work of a run: one request for the home page and at most
\* one per candidate looked at, of which there are CANDIDATE_CAP at most, each
\* request lasting REQUEST_TIMEOUT seconds at most; the page cap bounds the
\* pages analyzed
C10_Bounds ==
    /\ Len(candidate_links) <= CANDIDATE_CAP
    /\ pc \in {"loop", "fetched", "done"} =>
          /\ idx <= Len(candidate_links) + 1
          /\ Len(requests) <= idx + (IF pc = "fetched" THEN 1 ELSE 0)
    /\ Len(requests) <= 1 + Len(candidate_links)
    /\ Len(requests) * REQUEST_TIMEOUT <= (1 + CANDIDATE_CAP) * REQUEST_TIMEOUT
    /\ Len(pages_data) <= Min(max_pages, Len(requests))

\* the steps a run has left at most
StepsLeft ==
    CASE pc = "start" -> 2 * CANDIDATE_CAP + 5
      [] pc = "fetch_home" -> 2 * CANDIDATE_CAP + 4
      [] pc = "home" -> 2 * CANDIDATE_CAP + 3
      [] pc = "loop" -> 2 * (Len(candidate_links) + 1 - idx) + 1
      [] pc = "fetched" -> 2 * (Len(candidate_links) + 1 - idx)
      [] OTHER -> 0

\* C10: every run terminates, FAILED or DONE: a run that has not terminated
\* is at a position where a step is enabled whatever the data, and each of
\* its steps lowers StepsLeft, which is never negative; and its work is
\* bounded as C10_Bounds says
C10_BoundedWork ==
    /\ [](C10_Bounds /\ StepsLeft >= 0)
    /\ [](~Terminated => pc \in {"start", "fetch_home", "home", "loop", "fetched"})
    /\ [][~Terminated => StepsLeft' < StepsLeft]_vars

\* a run ended after more requests than the page cap
C10_Witness == pc = "done" /\ Len(requests) > max_pages

-----------------------------------------------------------------------------
(* Specification SpecNorm: normalize_base_url on raw input strings *)

NormPrefixes == {<<>>, <<"h","t","t","p",":","/","/">>, <<"h","t","t","p","s",":","/","/">>, <<"H","T","T","P",":","/","/">>, <<"f","t","p",":","/","/">>, <<"/","/">>}
NormHosts == {<<"e","x","a","m","p","l","e",".","c","o","m">>, <<"h","t","t","p","b","i","n",".","o","r","g">>, <<"x",".","c","o","m">>, <<"h","t","t","p","s",".","f","r">>}
NormSuffixes == {<<>>, <<"/","p","a","t","h">>, <<"?","q","=","1">>, <<"/","p","a","t","h","?","q","=","1">>, <<":","8","0","8","0","/","p","#","f">>}
NormInputs == {p \o h \o s : p \in NormPrefixes, h \in NormHosts, s \in NormSuffixes}

InitNorm ==
    /\ nz_pc = "start" /\ nz_url \in NormInputs /\ nz_out = <<>>
    /\ CrawlIdle /\ LinksIdle /\ CarbonIdle

\* base = normalize_base_url(url)
Normalize ==
    /\ nz_pc = "start"
    /\ nz_out' = normalize_base_url(nz_url)
    /\ nz_pc' = "done"
    /\ UNCHANGED <<nz_url, crawlVars, linkVars, carbonVars>>

\* the result handed to normalize_base_url again
Renormalize ==
    /\ nz_pc = "done"
    /\ nz_url' = nz_out
    /\ nz_out' = normalize_base_url(nz_out)
    /\ nz_pc' = "again"
    /\ UNCHANGED <<crawlVars, linkVars, carbonVars>>

NextNorm == Normalize \/ Renormalize

SpecNorm == InitNorm /\ [][NextNorm]_vars

\* the input has neither prefix http:// nor prefix https://
NeedsSchemePrefixStrict(url) ==
    ~(StartsWith(url, <<"h","t","t","p",":","/","/">>) \/ StartsWith(url, <<"h","t","t","p","s",":","/","/">>))

\* C6: normalize_base_url always returns scheme://host with scheme http or
\* https: https is prepended when the input has no http:// or https:// prefix
\* (host names beginning with the letters "http" included), a given prefix
\* keeps its scheme, path and query are stripped, and a normalized BaseURL
\* normalizes to itself.
C6_AlwaysHasScheme ==
    nz_pc # "start" =>
        /\ StartsWith(nz_out, <<"h","t","t","p",":","/","/">>) \/ StartsWith(nz_out, <<"h","t","t","p","s",":","/","/">>)
        /\ NeedsSchemePrefixStrict(nz_url) => StartsWith(nz_out, <<"h","t","t","p","s",":","/","/">>)
        /\ StartsWith(nz_url, <<"h","t","t","p",":","/","/">>) => StartsWith(nz_out, <<"h","t","t","p",":","/","/">>)
        /\ \A i \in 8..Len(nz_out) : nz_out[i] \notin {"/", "?", "#"}
        /\ normalize_base_url(nz_out) = nz_out


-----------------------------------------------------------------------------
(* Specification SpecLinks: find_candidate_links on the anchors of a page *)

MaxAnchors == 3
MaxLinksArg == 3

LinkBase == <<"h","t","t","p","s",":","/","/","x",".","f","r">>

AnchorPool ==
    { Anchor(<<"/","a">>, <<>>),
      Anchor(<<"/","a">>, <<"B","i","l","a","n"," ","C","O","2">>),
      Anchor(<<"/","r","s","e">>, <<"R","S","E">>),
      Anchor(<<"/","C","a","r","b","o","n","e">>, <<"n","o","t","r","e"," ","e","n","v","i","r","o","n","n","e","m","e","n","t">>),
      Anchor(<<"h","t","t","p","s",":","/","/","y",".","c","o","m","/","r","s","e">>, <<"p","a","r","t","e","n","a","i","r","e">>),
      Anchor(<<"h","t","t","p","s",":","/","/","s","h","o","p",".","x",".","f","r","/","b">>, <<"b","o","u","t","i","q","u","e">>),
      Anchor(<<"h","t","t","p","s",":","/","/","x",".","f","r">>, <<"a","c","c","u","e","i","l">>) }

SeqsUpTo(S, n) == UNION {[1..k -> S] : k \in 0..n}

InitLinks ==
    /\ lk_pc = "start"
    /\ lk_html \in {[anchors |-> a] : a \in SeqsUpTo(AnchorPool, MaxAnchors)}
    /\ lk_max \in 1..MaxLinksArg
    /\ lk_out = <<>>
    /\ CrawlIdle /\ NormIdle /\ CarbonIdle

\* ranked = find_candidate_links(base_url, html, max_links)
Discover ==
    /\ lk_pc = "start"
    /\ lk_out' = find_candidate_links(LinkBase, lk_html, lk_max)
    /\ lk_pc' = "done"
    /\ UNCHANGED <<lk_html, lk_max, crawlVars, normVars, carbonVars>>

NextLinks == Discover

SpecLinks == InitLinks /\ [][NextLinks]_vars

\* the anchors of the page with their absolute urls
RECURSIVE AbsoluteFrom(_, _)
AbsoluteFrom(anchors, i) ==
    IF i > Len(anchors) THEN <<>>
    ELSE <<[url |-> urljoin(LinkBase, anchors[i].href), text |-> anchors[i].text]>>
         \o AbsoluteFrom(anchors, i + 1)

\* the internal anchors of the page
InternalAnchors ==
    SelectSeq(AbsoluteFrom(lk_html.anchors, 1),
              LAMBDA a : is_internal_link(a.url, RegisteredDomain(LinkBase)))

\* 5 times the number of stems found in the lower-cased url or anchor text
StemScore(a) ==
    LET u == Lower(a.url)
        t == Lower(a.text)
    IN  5 * Cardinality({k \in 1..Len(LinkKeywords) :
                Contains(u, LinkKeywords[k]) \/ Contains(t, LinkKeywords[k])})

RECURSIVE StemScores(_)
StemScores(anchors) ==
    IF anchors = <<>> THEN <<>>
    ELSE <<StemScore(Head(anchors))>> \o StemScores(Tail(anchors))

\* the best score sc gives the anchors of url u among ia
BestScore(ia, sc, u) ==
    LET S == {sc[i] : i \in {j \in 1..Len(ia) : ia[j].url = u}}
    IN  CHOOSE m \in S : \A x \in S : x <= m

\* the first anchor of url u having that score
BestPos(ia, sc, u) ==
    CHOOSE i \in 1..Len(ia) :
        /\ ia[i].url = u /\ sc[i] = BestScore(ia, sc, u)
        /\ \A j \in 1..(i - 1) : ~(ia[j].url = u /\ sc[j] = BestScore(ia, sc, u))

\* the rank of url u: its best score, then the position of the anchor having it
RanksBefore(ia, sc, u, v) ==
    \/ BestScore(ia, sc, u) > BestScore(ia, sc, v)
    \/ /\ BestScore(ia, sc, u) = BestScore(ia, sc, v)
       /\ BestPos(ia, sc, u) < BestPos(ia, sc, v)

\* C4: find_candidate_links returns each internal url at most once, min(max_links,
\* number of distinct internal urls) of them, ordered by score descending (the
\* score of a link being 5 per stem found in its lower-cased url or anchor text,
\* a url standing for its best-scored anchor), equal scores in discovery order;
\* a link with "carbone" in its url comes before every link matching no stem.
C4_RankedCandidates ==
    lk_pc = "done" =>
        LET ia == InternalAnchors
            sc == StemScores(ia)
            urls == {ia[i].url : i \in 1..Len(ia)}
            n == Len(lk_out)
        IN  /\ \A i, j \in 1..n : i # j => lk_out[i] # lk_out[j]
            /\ n = Min(lk_max, Cardinality(urls))
            /\ Range(lk_out) \subseteq urls
            /\ LET links == ScoredLinks(LinkBase, lk_html)
               IN  /\ Len(links) = Len(ia)
                   /\ \A i \in 1..Len(ia) :
                         links[i].url = ia[i].url /\ links[i].score = sc[i]
            /\ \A i, j \in 1..n : i < j => RanksBefore(ia, sc, lk_out[i], lk_out[j])
            /\ \A u \in urls \ Range(lk_out) :
                  \A i \in 1..n : RanksBefore(ia, sc, lk_out[i], u)
            /\ \A i, j \in 1..n :
                  (/\ Contains(Lower(lk_out[i]), <<"c","a","r","b","o","n","e">>)
                   /\ BestScore(ia, sc, lk_out[j]) = 0) => i < j

\* a page on which one url has two anchors, the later of the better score, and
\* which has more internal urls than max_links
C4_Witness ==
    /\ lk_pc = "done"
    /\ LET ia == InternalAnchors
           sc == StemScores(ia)
           urls == {ia[i].url : i \in 1..Len(ia)}
       IN  /\ Len(lk_out) = lk_max
           /\ Cardinality(urls) > lk_max
           /\ \E i, j \in 1..Len(ia) :
                 i < j /\ ia[i].url = ia[j].url /\ sc[i] < sc[j]


-----------------------------------------------------------------------------
(* Specification SpecCarbon: estimate_site_carbon on a report's average size *)

\* avg_html_kb in tenths of a KB
CarbonSizes == {0, 5, 125, 1000, 2045}
\* monthly page views, within the 100..1000000 the form accepts
CarbonViews == {100, 1000, 10000, 128000, 1024000}
CarbonMultipliers == {Rat(10, 10), Rat(25, 10), Rat(30, 10)}
CarbonEnergies == {Rat(5, 10), Rat(75, 100)}
CarbonIntensities == {Rat(60, 1), Rat(300, 1), Rat(480, 1)}

InitCarbon ==
    /\ ce_pc = "start"
    /\ ce_in \in [avg_html_kb : CarbonSizes, views : CarbonViews,
                  multiplier : CarbonMultipliers, energy : CarbonEnergies,
                  intensity : CarbonIntensities]
    /\ ce_out = None
    /\ CrawlIdle /\ NormIdle /\ LinksIdle

\* carbon = estimate_site_carbon(site_result, monthly_page_views=..., ...)
EstimateCarbon ==
    /\ ce_pc = "start"
    /\ ce_out' = estimate_site_carbon([avg_html_kb |-> ce_in.avg_html_kb], ce_in.views,
                                      ce_in.multiplier, ce_in.energy, ce_in.intensity)
    /\ ce_pc' = "done"
    /\ UNCHANGED <<ce_in, crawlVars, normVars, linkVars>>

NextCarbon == EstimateCarbon

SpecCarbon == InitCarbon /\ [][NextCarbon]_vars

\* avgHtmlKb=100, views=10000, multiplier=3.0, energy=0.5, intensity=300
CarbonExample ==
    ce_in = [avg_html_kb |-> 1000, views |-> 10000, multiplier |-> Rat(30, 10),
             energy |-> Rat(5, 10), intensity |-> Rat(300, 1)]

\* gco2 per view, exactly: avg * multiplier * energy * intensity / 2^20
ExactGco2PerView ==
    RMul(RMul(Rat(ce_in.avg_html_kb, 10 * 1024), RMul(ce_in.multiplier, ce_in.energy)),
         RMul(ce_in.intensity, Rat(1, 1024)))

\* kg per month, exactly: gco2 per view * views / 1000
ExactMonthlyKg == RMul(ExactGco2PerView, Rat(ce_in.views, 1000))

Abs(x) == IF x < 0 THEN -x ELSE x

\* C5 as stated: the chain gives, for the example, 300.0 KB, about 0.042 g per
\* view, 0.42 kg per month and 5.04 kg per year, and the yearly figure returned
\* is 12 times the monthly figure returned.
C5_AsStated ==
    ce_pc = "done" =>
        /\ ce_out.yearly_kgco2 = 12 * ce_out.monthly_kgco2
        /\ CarbonExample =>
              /\ ce_out.avg_kb_per_page = 3000
              /\ ce_out.gco2_per_page_view \in 415..425
              /\ ce_out.monthly_kgco2 = 42
              /\ ce_out.yearly_kgco2 = 504

\* C5 amended: the figures returned are the roundings of the chain's exact
\* values (the yearly one of 12 times the unrounded monthly value, so within
\* 0.06 kg of 12 times the monthly figure returned); the example gives
\* 300.0 KB, 0.0429 g per view, 0.43 kg per month and 5.15 kg per year.
C5_Chain ==
    ce_pc = "done" =>
        /\ ce_out.avg_kb_per_page = Round(RMul(Rat(ce_in.avg_html_kb, 10), ce_in.multiplier), 1)
        /\ ce_out.gco2_per_page_view = Round(ExactGco2PerView, 4)
        /\ ce_out.monthly_kgco2 = Round(ExactMonthlyKg, 2)
        /\ ce_out.yearly_kgco2 = Round(RMul(ExactMonthlyKg, Rat(12, 1)), 2)
        /\ Abs(ce_out.yearly_kgco2 - 12 * ce_out.monthly_kgco2) <= 6
        /\ CarbonExample =>
              /\ ce_out.avg_kb_per_page = 3000
              /\ ce_out.gco2_per_page_view = 429
              /\ ce_out.monthly_kgco2 = 43
              /\ ce_out.yearly_kgco2 = 515

\* the example has been estimated, and its yearly figure is not 12 times its
\* monthly figure
C5_Witness ==
    /\ ce_pc = "done" /\ CarbonExample
    /\ ce_out.yearly_kgco2 # 12 * ce_out.monthly_kgco2

====
